---- MODULE Spec2Model ----
(***************************************************************************)
(* External-drives documentation: the drive scan (drives_scanner.py), the  *)
(* fetch / merge / filter / upload cycle against the remote worksheet      *)
(* (storage_gspread.py), the non-interactive entry point (main.py) and the *)
(* GUI shell with its single background worker (gui_app.py).               *)
(*                                                                         *)
(* Representation.  A string that may be a path ("/media/A", "A") is the   *)
(* sequence of its path segments (<<"media","A">>, <<"A">>); the empty     *)
(* string is <<>>.  A size in GB rounded to 3 decimals is the integer      *)
(* number of thousandths (1.397 GB is 1397).  A DataFrame is a record      *)
(* [cols, rows]: cols tells whether it has its columns (a DataFrame built  *)
(* from an empty list of records has none), rows is the sequence of rows.  *)
(* A row carries drive-name, project-name, size and total-storage          *)
(* (free-storage is produced and carried exactly like total-storage; the   *)
(* date is computed from the directory name alone, by                      *)
(* get_date_from_dir_name, which works on the name as the sequence of its  *)
(* characters).                                                            *)
(***************************************************************************)
EXTENDS Integers, Sequences, FiniteSets, TLC

VARIABLES os_name,      \* os.name of the machine: "nt" or "posix"
          mounted,      \* the partitions psutil.disk_partitions() lists, with their top-level listing
          bl_sheet,     \* worksheet 1: the rows of the blacklist sheet
          worksheet,    \* worksheet 0: the remote catalog
          procs,        \* per process / worker thread: position and locals
          is_running,   \* App.is_running
          start_button, \* state of App.start_button
          app,          \* the Tk application: "none", "open", "destroyed"
          log,          \* the last notice written by App._log
          dialog,       \* the last answer to the "Quit?" dialog: "none", "yes", "no"
          last_writer,  \* the process whose worksheet.update() came last (0: none yet)
          env_steps,    \* number of environment changes made
          dir_name,     \* the directory name get_date_from_dir_name is called with
          date          \* whether it has been called, and what it returned

vars == <<os_name, mounted, bl_sheet, worksheet, procs, is_running,
          start_button, app, log, dialog, last_writer, env_steps, dir_name, date>>

(***************************************************************************)
(* Bounds                                                                  *)
(***************************************************************************)
MaxMounted == 2
MaxEnvSteps == 1
MaxRows == 4
MaxNameLen == 12

(***************************************************************************)
(* Program constants                                                       *)
(***************************************************************************)
GiB == 1073741824
Decimals == 1000
drive_removable == 2
drive_fixed == 3
PermissionDenied == -1

(***************************************************************************)
(* Sequence helpers                                                        *)
(***************************************************************************)
Range(s) == {s[i] : i \in 1..Len(s)}

RECURSIVE FlatMap(_, _)
FlatMap(F(_), s) == IF s = <<>> THEN <<>> ELSE F(Head(s)) \o FlatMap(F, Tail(s))

(***************************************************************************)
(* drives_scanner.py                                                       *)
(***************************************************************************)
\* A top-level entry of a drive: name, whether it is a directory, whether
\* its name starts with ".", the byte sum of the regular files below it and
\* whether the whole subtree can be read.
get_dir_size(e) == IF e.readable THEN e.bytes ELSE PermissionDenied

\* round(bytes_size / 1024 ** 3, 3), in thousandths of a GB.  The quotient
\* b * 1000 / 2^30 = b * 125 / 2^27 is computed in pieces that stay within
\* 32 bits; the remainder decides the rounding (ties to even).
bytes_to_gb(bytes_size) ==
    LET D  == GiB \div 8
        q  == bytes_size \div D
        r  == bytes_size % D
        r1 == r \div 1048576
        r0 == r % 1048576
        a  == (125 * r1) \div 128
        c  == (125 * r1) % 128
        n  == c * 1048576 + 125 * r0
        fl == (Decimals \div 8) * q + a + (n \div D)
        rem == n % D
    IN  IF 2 * rem > D THEN fl + 1
        ELSE IF 2 * rem = D /\ fl % 2 = 1 THEN fl + 1
        ELSE fl

\* The characters directory names are made of here: digits, letters, the
\* underscore, and others.
Digits == {"0", "1", "2", "3", "4", "5", "6", "7", "8", "9"}
Letters == {"a", "T", "x"}
Others == {"-", ".", " "}

\* Python's None and a returned str.
None == [some |-> FALSE, str |-> <<>>]
Str(s) == [some |-> TRUE, str |-> s]

\* The regular expression's \d and \W.
re_d(c) == c \in Digits

\* Mutant: any character that is not a digit.
re_W_non_digit(c) == c \notin Digits

re_W(c) == c \notin Digits \cup Letters \cup {"_"}

\* re.fullmatch(r"\d{4}\W\d{2}\W\d{2}", s)
re_fullmatch(s) ==
    /\ Len(s) = 10
    /\ \A i \in {1, 2, 3, 4, 6, 7, 9, 10} : re_d(s[i])
    /\ re_W(s[5])
    /\ re_W(s[8])

\* dir_name[:10]
Slice10(s) == SubSeq(s, 1, IF Len(s) < 10 THEN Len(s) ELSE 10)

get_date_from_dir_name(name) ==
    IF re_fullmatch(Slice10(name)) THEN Str(Slice10(name)) ELSE None

PathName(mountpoint) == IF mountpoint = <<>> THEN "" ELSE mountpoint[Len(mountpoint)]

GetVolumeInformation(mounts, mountpoint) ==
    (CHOOSE m \in mounts : m.part.mountpoint = mountpoint).part.label

is_external_drive(os, p) ==
    IF "cdrom" \in p.opts THEN FALSE
    ELSE IF p.fstype = "" THEN FALSE
    ELSE IF os = "nt"
         THEN IF p.label = "" THEN FALSE
              ELSE p.drive_type = drive_removable \/ p.drive_type = drive_fixed
         ELSE Head(p.mountpoint) \in {"media", "mnt", "Volumes"}

\* psutil.disk_partitions() lists the partitions in a fixed order.
RECURSIVE disk_partitions(_)
disk_partitions(mounts) ==
    IF mounts = {} THEN <<>>
    ELSE LET m == CHOOSE x \in mounts : \A y \in mounts : x.part.rank <= y.part.rank
         IN  <<m>> \o disk_partitions(mounts \ {m})

get_external_drives(os, mounts) ==
    LET keep(m) == is_external_drive(os, m.part)
        mp(m) == <<m.part.mountpoint>>
    IN  FlatMap(mp, SelectSeq(disk_partitions(mounts), keep))

drive_name_of(os, mounts, mountpoint) ==
    IF os = "nt" THEN GetVolumeInformation(mounts, mountpoint) ELSE PathName(mountpoint)

get_drive_properties(os, mounts, mountpoint) ==
    LET m == CHOOSE x \in mounts : x.part.mountpoint = mountpoint
    IN  [drive |-> drive_name_of(os, mounts, mountpoint),
         total |-> bytes_to_gb(m.part.total)]

is_valid_directory(subdir, blacklist_directories) ==
    /\ subdir.is_dir
    /\ ~subdir.dot
    /\ subdir.name \notin blacklist_directories

scan_directories(mounts, parent_dir, blacklist_directories) ==
    LET m == CHOOSE x \in mounts : x.part.mountpoint = parent_dir
        ok(e) == is_valid_directory(e, blacklist_directories)
        rec(e) == <<[project |-> e.name, size |-> bytes_to_gb(get_dir_size(e))]>>
    IN  FlatMap(rec, SelectSeq(m.listing, ok))

is_blacklisted_drive(os, mounts, mountpoint, blacklist_drives) ==
    IF os = "nt"
    THEN <<GetVolumeInformation(mounts, mountpoint)>> \in blacklist_drives
    ELSE mountpoint \in blacklist_drives

DataFrame(records) == [cols |-> records # <<>>, rows |-> records]

scan_valid_drives_to_df(os, mounts, blacklist_drives, blacklist_directories) ==
    LET one(mountpoint) ==
            IF is_blacklisted_drive(os, mounts, mountpoint, blacklist_drives) THEN <<>>
            ELSE LET dp == get_drive_properties(os, mounts, mountpoint)
                     row(d) == <<[drive |-> dp.drive, project |-> d.project,
                                  size |-> d.size, total |-> dp.total]>>
                 IN  FlatMap(row, scan_directories(mounts, mountpoint, blacklist_directories))
    IN  DataFrame(FlatMap(one, get_external_drives(os, mounts)))

\* The nested form: one record per drive name; a later drive with the same
\* name replaces the earlier one (drives[name] = drive_properties).
scan_valid_drives_to_dict(os, mounts, blacklist_drives, blacklist_directories) ==
    LET mps == SelectSeq(get_external_drives(os, mounts),
                         LAMBDA mp : ~is_blacklisted_drive(os, mounts, mp, blacklist_drives))
        names == {drive_name_of(os, mounts, mps[i]) : i \in 1..Len(mps)}
        last(n) == CHOOSE i \in 1..Len(mps) :
                      /\ drive_name_of(os, mounts, mps[i]) = n
                      /\ \A j \in 1..Len(mps) :
                            drive_name_of(os, mounts, mps[j]) = n => j <= i
    IN  [n \in names |->
            [drive |-> n,
             total |-> get_drive_properties(os, mounts, mps[last(n)]).total,
             projects |-> scan_directories(mounts, mps[last(n)], blacklist_directories)]]

(***************************************************************************)
(* storage_gspread.py                                                      *)
(***************************************************************************)
\* The strings of the model that int() accepts.
IntLiterals == {"2024"}

\* A value Python holds as an int is written with a leading "#": the int
\* 2024 is "#2024", the str '2024' is "2024".  A cell of the sheet holds
\* the value that was written to it (values are written as they are, a str
\* as text and an int as a number).
IntOf == [v \in IntLiterals |-> "#" \o v]

\* gspread's numericise, which get_all_records() applies to every cell: a
\* text that reads as a number becomes that number, a number stays.
numericise(value) == IF value \in IntLiterals THEN IntOf[value] ELSE value

\* The same for a cell whose text the model holds as a path.
numericise_path(cell) ==
    IF Len(cell) = 1 THEN <<numericise(cell[1])>> ELSE cell

\* worksheet.get_all_records(): the rows below the header, every cell
\* numericised; no rows gives a DataFrame without columns.
fetch_online_docu(ws) ==
    LET rec(r) == <<[r EXCEPT !.drive = numericise(r.drive),
                              !.project = numericise(r.project)]>>
    IN  DataFrame(FlatMap(rec, ws.rows))

\* df[column] on a DataFrame without columns raises KeyError.
load_blacklist_raises(sheet) == sheet = <<>>

load_blacklist(sheet) ==
    [drives |-> {numericise_path(sheet[i].drives) : i \in 1..Len(sheet)} \ {<<>>},
     dirs   |-> {numericise(sheet[i].folders) : i \in 1..Len(sheet)} \ {""}]

apply_blacklist_on_df_raises(docu) == ~docu.cols

\* Mutant: only the drive blacklist is applied.
apply_blacklist_on_df_drives_only(docu, bl_drives, bl_directories) ==
    [cols |-> docu.cols,
     rows |-> SelectSeq(docu.rows, LAMBDA r : <<r.drive>> \notin bl_drives)]

apply_blacklist_on_df(docu, bl_drives, bl_directories) ==
    [cols |-> docu.cols,
     rows |-> SelectSeq(docu.rows,
                 LAMBDA r : /\ <<r.drive>> \notin bl_drives
                            /\ r.project \notin bl_directories)]

update_docu_offline_raises(downloaded_docu, connected_drives_docu) ==
    connected_drives_docu.cols /\ ~downloaded_docu.cols

\* Mutant: the selection of the rows to keep is not negated.
update_docu_offline_not_negated(downloaded_docu, connected_drives_docu) ==
    LET connected_drives == {connected_drives_docu.rows[i].drive :
                                i \in 1..Len(connected_drives_docu.rows)}
        kept == IF connected_drives_docu.cols
                THEN SelectSeq(downloaded_docu.rows, LAMBDA r : r.drive \in connected_drives)
                ELSE downloaded_docu.rows
    IN  [cols |-> downloaded_docu.cols \/ connected_drives_docu.cols,
         rows |-> kept \o connected_drives_docu.rows]

update_docu_offline(downloaded_docu, connected_drives_docu) ==
    LET connected_drives == {connected_drives_docu.rows[i].drive :
                                i \in 1..Len(connected_drives_docu.rows)}
        kept == IF connected_drives_docu.cols
                THEN SelectSeq(downloaded_docu.rows, LAMBDA r : r.drive \notin connected_drives)
                ELSE downloaded_docu.rows
    IN  [cols |-> downloaded_docu.cols \/ connected_drives_docu.cols,
         rows |-> kept \o connected_drives_docu.rows]

\* worksheet.clear(): every cell is emptied, the header row included.
worksheet_clear(ws) == [header |-> FALSE, rows |-> <<>>]

\* worksheet.update([columns] + values): the cells of the given block are
\* written from A1 on; the cells below the block keep what they hold.
\* Mutant: the block is written below the rows the sheet already holds.
worksheet_update_appending(ws, docu) ==
    [header |-> TRUE, rows |-> ws.rows \o docu.rows]

worksheet_update(ws, docu) ==
    [header |-> TRUE,
     rows |-> docu.rows \o SubSeq(ws.rows, Len(docu.rows) + 1, Len(ws.rows))]

\* SpreadsheetDocu.update_online_spreadsheet as a whole: the worksheet it
\* leaves, given the blacklist sheet and the worksheet it finds.  An
\* exception before the upload leaves the worksheet as it is.
update_online_spreadsheet(sheet, ws, connected_drives_docu) ==
    LET downloaded_docu == fetch_online_docu(ws)
        updated_docu == update_docu_offline(downloaded_docu, connected_drives_docu)
        bl == load_blacklist(sheet)
    IN  IF update_docu_offline_raises(downloaded_docu, connected_drives_docu) THEN ws
        ELSE IF load_blacklist_raises(sheet) \/ apply_blacklist_on_df_raises(updated_docu) THEN ws
        ELSE worksheet_update(worksheet_clear(ws),
                              apply_blacklist_on_df(updated_docu, bl.drives, bl.dirs))

\* main.main() as a whole, once the spreadsheet is open: the worksheet it
\* leaves (the formatter writes formatting rules only).
main(os, mounts, sheet, ws) ==
    IF load_blacklist_raises(sheet) THEN ws
    ELSE LET bl == load_blacklist(sheet)
             drives_df == scan_valid_drives_to_df(os, mounts, bl.drives, bl.dirs)
         IN  update_online_spreadsheet(sheet, ws, drives_df)

(***************************************************************************)
(* The environment: what can be plugged in, what the top level of a drive  *)
(* can hold, what the blacklist sheet can hold, and the catalog the remote *)
(* worksheet holds when the program is first run.                          *)
(***************************************************************************)
Partitions(os) ==
    IF os = "nt"
    THEN {[rank |-> 1, mountpoint |-> <<"D:">>, opts |-> {"rw", "fixed"}, fstype |-> "NTFS",
           label |-> "A", drive_type |-> drive_removable, total |-> GiB],
          [rank |-> 2, mountpoint |-> <<"E:">>, opts |-> {"rw", "fixed"}, fstype |-> "exFAT",
           label |-> "A", drive_type |-> drive_fixed, total |-> 1500000000],
          [rank |-> 3, mountpoint |-> <<"F:">>, opts |-> {"rw", "fixed"}, fstype |-> "NTFS",
           label |-> "", drive_type |-> drive_fixed, total |-> GiB],
          [rank |-> 4, mountpoint |-> <<"G:">>, opts |-> {"rw", "removable"}, fstype |-> "FAT32",
           label |-> "2024", drive_type |-> drive_removable, total |-> GiB]}
    ELSE {[rank |-> 1, mountpoint |-> <<"media", "A">>, opts |-> {"rw"}, fstype |-> "ext4",
           label |-> "", drive_type |-> 0, total |-> GiB],
          [rank |-> 2, mountpoint |-> <<"mnt", "A">>, opts |-> {"rw"}, fstype |-> "vfat",
           label |-> "", drive_type |-> 0, total |-> 1500000000],
          [rank |-> 3, mountpoint |-> <<"media", "cdrom0">>, opts |-> {"ro", "cdrom"},
           fstype |-> "iso9660", label |-> "", drive_type |-> 0, total |-> GiB],
          [rank |-> 4, mountpoint |-> <<"media", "2024">>, opts |-> {"rw"}, fstype |-> "vfat",
           label |-> "", drive_type |-> 0, total |-> GiB]}

Entry(name, is_dir, dot, bytes, readable) ==
    [name |-> name, is_dir |-> is_dir, dot |-> dot, bytes |-> bytes, readable |-> readable]

\* What the top level of a drive can hold; the drive named 2024 and a
\* partition that is not an external drive hold one project directory.
Listings(os, part) ==
    IF is_external_drive(os, part) /\ part.rank < 4
    THEN {<<Entry(".git", TRUE, TRUE, 350, TRUE), Entry("notes.txt", FALSE, FALSE, 100, TRUE)>>,
          <<Entry("p", TRUE, FALSE, GiB, TRUE)>>,
          <<Entry("p", TRUE, FALSE, 350, FALSE), Entry("q", TRUE, FALSE, 0, TRUE)>>}
    ELSE {<<Entry("p", TRUE, FALSE, GiB, TRUE)>>}

Mounts(os) == {[part |-> pt, listing |-> l] : pt \in Partitions(os), l \in UNION {Listings(os, q) : q \in Partitions(os)}}

OsNames == {"nt", "posix"}

\* What can be mounted at one time: each partition at most once.
MountStatesOf ==
    [os \in OsNames |->
        {M \in SUBSET {m \in Mounts(os) : m.listing \in Listings(os, m.part)} :
            /\ Cardinality(M) <= MaxMounted
            /\ \A m1, m2 \in M : m1.part = m2.part => m1 = m2}]

MountStates(os) == MountStatesOf[os]

BlRow(drives, folders) == [drives |-> drives, folders |-> folders]

BlacklistSheets ==
    {<<>>,
     <<BlRow(<<"Z">>, "")>>,
     <<BlRow(<<"A">>, "")>>,
     <<BlRow(<<"media", "A">>, "p")>>,
     <<BlRow(<<>>, "p")>>,
     <<BlRow(<<"B">>, "p"), BlRow(<<>>, "q")>>}

Row(drive, project, size, total) ==
    [drive |-> drive, project |-> project, size |-> size, total |-> total]

SeedWorksheet ==
    [header |-> TRUE, rows |-> <<Row("A", "q", 250, 1000), Row("B", "p", 500, 1000)>>]

(***************************************************************************)
(* Processes and worker threads                                            *)
(***************************************************************************)
ProcIds == {1, 2}

NoDF == [cols |-> FALSE, rows |-> <<>>]
NotCalled == [called |-> FALSE, value |-> None]
NoBl == [drives |-> {}, dirs |-> {}]

NoWs == [header |-> FALSE, rows |-> <<>>]

\* The locals of a run, and what is on record about it: at is the step whose
\* exception ended the run ("" when none did), ws0 the remote catalog when
\* the run was started, before the remote catalog when
\* update_online_spreadsheet made its fetch.
Idle == [kind |-> "none", pc |-> "idle", bl |-> NoBl, fresh |-> NoDF,
         downloaded |-> NoDF, bl2 |-> NoBl, updated |-> NoDF,
         valid |-> {}, arg |-> NoBl, first |-> NoDF,
         at |-> "", ws0 |-> NoWs, before |-> NoWs]

AllIdle == \A p \in ProcIds : procs[p].pc = "idle"

\* Runs are started while the remote catalog is within the rows looked at.
RoomInSheet == Len(worksheet.rows) <= MaxRows

GuiAlive(p) == procs[p].kind = "gui" => app = "open"

Set(p, rec) == procs' = [procs EXCEPT ![p] = rec]

env == <<os_name, mounted, bl_sheet, env_steps, dir_name, date>>
gui == <<is_running, start_button, app, log, dialog>>

\* A step of process p to the record rec; a GUI worker also writes note to the log.
Step(p, rec, note) ==
    /\ procs' = [procs EXCEPT ![p] = rec]
    /\ log' = IF procs[p].kind = "gui" THEN note ELSE log

\* Mutant: the exception ends the worker thread without its finally clause.
Raised_propagates(p) ==
    [procs[p] EXCEPT !.pc = "failed", !.at = procs[p].pc]

\* An exception leaves a process failed; the GUI worker catches it and logs it.
Raised(p) ==
    [procs[p] EXCEPT !.pc = IF procs[p].kind = "gui" THEN "finally" ELSE "failed",
                     !.at = procs[p].pc]

(***************************************************************************)
(* main.main() and App._docu_update_worker, one action per remote call     *)
(***************************************************************************)
MainStart(p) ==
    /\ procs[p].pc = "idle"
    /\ RoomInSheet
    /\ Set(p, [Idle EXCEPT !.kind = "main", !.pc = "open", !.ws0 = worksheet])
    /\ UNCHANGED <<env, worksheet, gui, last_writer>>

\* SpreadsheetDocu(SPREADSHEET_NAME): gspread.service_account() and
\* gc.open() raise when the credentials or the spreadsheet are not there.
Open(p) ==
    /\ procs[p].pc = "open"
    /\ GuiAlive(p)
    /\ \E opened \in BOOLEAN :
          IF opened
          THEN Step(p, [procs[p] EXCEPT !.pc = "load_blacklist"], "Scanning drives...")
          ELSE Step(p, Raised(p), "ERROR")
    /\ UNCHANGED <<env, worksheet, is_running, start_button, app, dialog, last_writer>>

LoadBlacklist(p) ==
    /\ procs[p].pc = "load_blacklist"
    /\ GuiAlive(p)
    /\ IF load_blacklist_raises(bl_sheet)
       THEN Step(p, Raised(p), "ERROR")
       ELSE Step(p, [procs[p] EXCEPT !.bl = load_blacklist(bl_sheet), !.pc = "scan"],
                 "Scanning drives...")
    /\ UNCHANGED <<env, worksheet, is_running, start_button, app, dialog, last_writer>>

ScannedNames(os, mounts, blacklist_drives) ==
    LET mps == get_external_drives(os, mounts)
    IN  {drive_name_of(os, mounts, mps[i]) :
            i \in {j \in 1..Len(mps) : ~is_blacklisted_drive(os, mounts, mps[j], blacklist_drives)}}

Scan(p) ==
    /\ procs[p].pc = "scan"
    /\ GuiAlive(p)
    /\ LET drives_df == scan_valid_drives_to_df(os_name, mounted, procs[p].bl.drives,
                                                procs[p].bl.dirs)
           rec == [procs[p] EXCEPT !.fresh = drives_df,
                                   !.valid = ScannedNames(os_name, mounted, procs[p].bl.drives)]
       IN  IF procs[p].kind = "gui" /\ drives_df.rows = <<>>
           THEN Step(p, [rec EXCEPT !.pc = "finally"], "Documentation is not updated.")
           ELSE Step(p, [rec EXCEPT !.pc = "fetch"], "Updating Spreadsheet...")
    /\ UNCHANGED <<env, worksheet, is_running, start_button, app, dialog, last_writer>>

(***************************************************************************)
(* SpreadsheetDocu.update_online_spreadsheet, one action per remote call   *)
(***************************************************************************)
\* Mutant: the sheet is cleared as soon as it has been fetched.
Fetch_then_clear(p) ==
    /\ procs[p].pc = "fetch"
    /\ GuiAlive(p)
    /\ worksheet' = worksheet_clear(worksheet)
    /\ LET downloaded_docu == fetch_online_docu(worksheet)
       IN  IF update_docu_offline_raises(downloaded_docu, procs[p].fresh)
           THEN Step(p, [Raised(p) EXCEPT !.before = worksheet,
                                          !.downloaded = downloaded_docu], "ERROR")
           ELSE Step(p, [procs[p] EXCEPT
                            !.before = worksheet,
                            !.downloaded = downloaded_docu,
                            !.updated = update_docu_offline(downloaded_docu, procs[p].fresh),
                            !.pc = "filter"], log)
    /\ UNCHANGED <<env, is_running, start_button, app, dialog, last_writer>>

Fetch(p) ==
    /\ procs[p].pc = "fetch"
    /\ GuiAlive(p)
    /\ LET downloaded_docu == fetch_online_docu(worksheet)
       IN  IF update_docu_offline_raises(downloaded_docu, procs[p].fresh)
           THEN Step(p, [Raised(p) EXCEPT !.before = worksheet,
                                          !.downloaded = downloaded_docu], "ERROR")
           ELSE Step(p, [procs[p] EXCEPT
                            !.before = worksheet,
                            !.downloaded = downloaded_docu,
                            !.updated = update_docu_offline(downloaded_docu, procs[p].fresh),
                            !.pc = "filter"], log)
    /\ UNCHANGED <<env, worksheet, is_running, start_button, app, dialog, last_writer>>

Filter(p) ==
    /\ procs[p].pc = "filter"
    /\ GuiAlive(p)
    /\ IF load_blacklist_raises(bl_sheet) \/ apply_blacklist_on_df_raises(procs[p].updated)
       THEN Step(p, Raised(p), "ERROR")
       ELSE LET bl == load_blacklist(bl_sheet)
            IN  Step(p, [procs[p] EXCEPT
                            !.bl2 = bl,
                            !.updated = apply_blacklist_on_df(procs[p].updated, bl.drives, bl.dirs),
                            !.pc = "clear"], log)
    /\ UNCHANGED <<env, worksheet, is_running, start_button, app, dialog, last_writer>>

Clear(p) ==
    /\ procs[p].pc = "clear"
    /\ GuiAlive(p)
    /\ worksheet' = worksheet_clear(worksheet)
    /\ Step(p, [procs[p] EXCEPT !.pc = "write"], log)
    /\ UNCHANGED <<env, is_running, start_button, app, dialog, last_writer>>

Write(p) ==
    /\ procs[p].pc = "write"
    /\ GuiAlive(p)
    /\ worksheet' = worksheet_update(worksheet, procs[p].updated)
    /\ last_writer' = p
    /\ Step(p, [procs[p] EXCEPT !.pc = IF procs[p].kind \in {"main", "gui"}
                                       THEN "format" ELSE "done"],
            "Formatting Spreadsheet...")
    /\ UNCHANGED <<env, is_running, start_button, app, dialog>>

\* SpreadsheetFormatter.format_drives_column: reads the catalog, writes only
\* formatting rules; df[column_name] raises on a catalog without rows.
Format(p) ==
    /\ procs[p].pc = "format"
    /\ GuiAlive(p)
    /\ IF ~fetch_online_docu(worksheet).cols
       THEN Step(p, Raised(p), "ERROR")
       ELSE Step(p, [procs[p] EXCEPT !.pc = IF procs[p].kind = "gui" THEN "finally" ELSE "done"],
                 "Documentation successfully updated!")
    /\ UNCHANGED <<env, worksheet, is_running, start_button, app, dialog, last_writer>>

\* The process ends (its exit code tells whether an error propagated).
Return(p) ==
    /\ procs[p].pc \in {"done", "failed"}
    /\ Set(p, Idle)
    /\ UNCHANGED <<env, worksheet, gui, last_writer>>

(***************************************************************************)
(* The environment changes between runs.                                   *)
(***************************************************************************)
Replug ==
    /\ AllIdle
    /\ env_steps < MaxEnvSteps
    /\ \E M \in MountStates(os_name) \ {mounted} : mounted' = M
    /\ env_steps' = env_steps + 1
    /\ UNCHANGED <<os_name, bl_sheet, worksheet, procs, gui, last_writer, dir_name, date>>

EditBlacklist ==
    /\ AllIdle
    /\ env_steps < MaxEnvSteps
    /\ \E sheet \in BlacklistSheets \ {bl_sheet} : bl_sheet' = sheet
    /\ env_steps' = env_steps + 1
    /\ UNCHANGED <<os_name, mounted, worksheet, procs, gui, last_writer, dir_name, date>>

InitEnv ==
    /\ os_name \in OsNames
    /\ mounted \in MountStates(os_name)
    /\ bl_sheet \in BlacklistSheets
    /\ worksheet = SeedWorksheet
    /\ procs = [p \in ProcIds |-> Idle]
    /\ is_running = FALSE
    /\ start_button = "normal"
    /\ log = ""
    /\ dialog = "none"
    /\ last_writer = 0
    /\ env_steps = 0
    /\ dir_name = <<>>
    /\ date = NotCalled

Init == InitEnv /\ app = "none"

Next ==
    \/ MainStart(1)
    \/ Open(1)
    \/ LoadBlacklist(1)
    \/ Scan(1)
    \/ Fetch(1)
    \/ Filter(1)
    \/ Clear(1)
    \/ Write(1)
    \/ Format(1)
    \/ Return(1)
    \/ Replug
    \/ EditBlacklist

Spec == Init /\ [][Next]_vars

(***************************************************************************)
(* SpreadsheetDocu.apply_blacklist_online(bl_drives, bl_directories)       *)
(***************************************************************************)
ApplyDriveSets == {{}, {<<"A">>}, {<<"B">>}}
ApplyDirSets == {{}, {"p"}}

\* The fetch, the filter and the comparison; when the filtered catalog
\* differs, update_online_spreadsheet(df_filtered) follows (Fetch .. Write).
ApplyBlacklistOnline(p, bl_drives, bl_directories) ==
    /\ procs[p].pc = "idle"
    /\ RoomInSheet
    /\ LET df == fetch_online_docu(worksheet)
           df_filtered == apply_blacklist_on_df(df, bl_drives, bl_directories)
           rec == [Idle EXCEPT !.kind = "apply", !.first = df, !.ws0 = worksheet,
                               !.arg = [drives |-> bl_drives, dirs |-> bl_directories]]
       IN  IF apply_blacklist_on_df_raises(df)
           THEN Set(p, [rec EXCEPT !.pc = "failed", !.at = "apply"])
           ELSE IF df = df_filtered
           THEN Set(p, [rec EXCEPT !.pc = "done"])
           ELSE Set(p, [rec EXCEPT !.fresh = df_filtered, !.pc = "fetch"])
    /\ UNCHANGED <<env, worksheet, gui, last_writer>>

InitApply == InitEnv /\ app = "none"

NextApply ==
    \/ \E bd \in ApplyDriveSets, bdir \in ApplyDirSets : ApplyBlacklistOnline(1, bd, bdir)
    \/ MainStart(1)
    \/ Open(1)
    \/ LoadBlacklist(1)
    \/ Scan(1)
    \/ Fetch(1)
    \/ Filter(1)
    \/ Clear(1)
    \/ Write(1)
    \/ Format(1)
    \/ Return(1)

SpecApply == InitApply /\ [][NextApply]_vars

(***************************************************************************)
(* Two independent processes, each in update_online_spreadsheet(fresh)     *)
(* with the result of a scan of its own machine.                           *)
(***************************************************************************)
RaceInputsOf ==
    [os \in OsNames |-> {scan_valid_drives_to_df(os, M, {}, {}) : M \in MountStates(os)}]

RaceInputs(os) == RaceInputsOf[os]

UpdateStart(p, connected_drives_docu) ==
    /\ procs[p].pc = "idle"
    /\ RoomInSheet
    /\ Set(p, [Idle EXCEPT !.kind = "update", !.fresh = connected_drives_docu,
                        !.ws0 = worksheet, !.pc = "fetch"])
    /\ UNCHANGED <<env, worksheet, gui, last_writer>>

InitRace == InitEnv /\ app = "none" /\ mounted = {}

NextRace ==
    \E p \in ProcIds :
        \/ \E df \in RaceInputs(os_name) : UpdateStart(p, df)
        \/ Fetch(p)
        \/ Filter(p)
        \/ Clear(p)
        \/ Write(p)

SpecRace == InitRace /\ [][NextRace]_vars

(***************************************************************************)
(* One process calling update_online_spreadsheet(fresh) and then, with the *)
(* same scan and the blacklist sheet as it is, once more.                  *)
(***************************************************************************)
UpdateAgain(p) ==
    /\ procs[p].kind = "update"
    /\ procs[p].pc = "done"
    /\ Set(p, [Idle EXCEPT !.kind = "again", !.fresh = procs[p].fresh,
                           !.ws0 = worksheet, !.pc = "fetch"])
    /\ UNCHANGED <<env, worksheet, gui, last_writer>>

InitTwice == InitEnv /\ app = "none" /\ mounted = {}

NextTwice ==
    \/ \E df \in RaceInputs(os_name) : UpdateStart(1, df)
    \/ Fetch(1)
    \/ Filter(1)
    \/ Clear(1)
    \/ Write(1)
    \/ UpdateAgain(1)
    \/ Return(1)

SpecTwice == InitTwice /\ [][NextTwice]_vars

(***************************************************************************)
(* get_date_from_dir_name called with one directory name.  The names: a    *)
(* date followed by letters, cut to any length, with any two characters    *)
(* replaced by any character.                                              *)
(***************************************************************************)
Alphabet == {"0", "7"} \cup {"a", "T"} \cup {"_"} \cup Others

DatedName(n) ==
    [k \in 1..n |-> IF k <= 10 THEN <<"2", "0", "2", "4", "-", "0", "1", "-", "1", "5">>[k]
                    ELSE "x"]

DirNames(longest) ==
    {<<>>} \cup
    UNION {{[[DatedName(n) EXCEPT ![i] = c] EXCEPT ![j] = d] :
               i \in 1..n, j \in 1..n, c \in Alphabet, d \in Alphabet} : n \in 1..longest}

GetDate ==
    /\ ~date.called
    /\ date' = [called |-> TRUE, value |-> get_date_from_dir_name(dir_name)]
    /\ UNCHANGED <<os_name, mounted, bl_sheet, env_steps, dir_name, worksheet, procs, gui,
                   last_writer>>

InitDate ==
    /\ os_name = "posix"
    /\ mounted = {}
    /\ bl_sheet = <<>>
    /\ worksheet = SeedWorksheet
    /\ procs = [p \in ProcIds |-> Idle]
    /\ is_running = FALSE
    /\ start_button = "normal"
    /\ app = "none"
    /\ log = ""
    /\ dialog = "none"
    /\ last_writer = 0
    /\ env_steps = 0
    /\ dir_name \in DirNames(MaxNameLen)
    /\ date = NotCalled

NextDate == GetDate

SpecDate == InitDate /\ [][NextDate]_vars

(***************************************************************************)
(* gui_app.py: the App, its handlers and its worker thread                 *)
(***************************************************************************)
\* Mutant: the busy flag is not looked at.
start_docu_update_thread_unguarded ==
    /\ is_running' = TRUE
    /\ start_button' = "disabled"
    /\ log' = "Starting process..."
    /\ LET p == CHOOSE q \in ProcIds :
                   procs[q].pc = "idle" /\ \A o \in ProcIds : procs[o].pc = "idle" => q <= o
       IN  Set(p, [Idle EXCEPT !.kind = "gui", !.pc = "open", !.ws0 = worksheet])

\* App._start_docu_update_thread
start_docu_update_thread ==
    IF is_running
    THEN /\ log' = "A process is already running."
         /\ UNCHANGED <<procs, is_running, start_button>>
    ELSE /\ is_running' = TRUE
         /\ start_button' = "disabled"
         /\ log' = "Starting process..."
         /\ LET p == CHOOSE q \in ProcIds :
                        procs[q].pc = "idle" /\ \A o \in ProcIds : procs[o].pc = "idle" => q <= o
            IN  Set(p, [Idle EXCEPT !.kind = "gui", !.pc = "open", !.ws0 = worksheet])

\* App.__init__ (installed): the window opens; with autostart set the
\* update is started at once.
AppInit(autostart) ==
    /\ app = "none"
    /\ RoomInSheet
    /\ app' = "open"
    /\ IF autostart
       THEN start_docu_update_thread
       ELSE UNCHANGED <<procs, is_running, start_button, log>>
    /\ UNCHANGED <<env, worksheet, dialog, last_writer>>

\* A start request: the start button's command.
StartRequest ==
    /\ app = "open"
    /\ RoomInSheet
    /\ \E q \in ProcIds : procs[q].pc = "idle"
    /\ start_docu_update_thread
    /\ UNCHANGED <<env, worksheet, app, dialog, last_writer>>

\* The finally clause of App._docu_update_worker, statement by statement.
WorkerFinallyFlag(p) ==
    /\ procs[p].pc = "finally"
    /\ GuiAlive(p)
    /\ is_running' = FALSE
    /\ Set(p, [procs[p] EXCEPT !.pc = "button"])
    /\ UNCHANGED <<env, worksheet, start_button, app, log, dialog, last_writer>>

WorkerFinallyButton(p) ==
    /\ procs[p].pc = "button"
    /\ GuiAlive(p)
    /\ start_button' = "normal"
    /\ Set(p, Idle)
    /\ UNCHANGED <<env, worksheet, is_running, app, log, dialog, last_writer>>

\* Mutant: the window is destroyed whatever the answer.
on_closing_destroys_always(running, answer) == TRUE

\* App._on_closing: whether self.destroy() is reached.
on_closing_destroys(running, answer) == ~running \/ answer = "yes"

\* The window is closed.  The worker is a daemon thread: once the window is
\* destroyed mainloop() returns, the interpreter exits and the worker stops
\* where it is.
OnClosing(answer) ==
    /\ app = "open"
    /\ dialog' = IF is_running THEN answer ELSE dialog
    /\ app' = IF on_closing_destroys(is_running, answer) THEN "destroyed" ELSE app
    /\ UNCHANGED <<env, worksheet, procs, is_running, start_button, log, last_writer>>

InitGui == InitEnv /\ app = "none"

\* A step of the worker thread p.
WorkerStep(p) ==
    \/ Open(p)
    \/ LoadBlacklist(p)
    \/ Scan(p)
    \/ Fetch(p)
    \/ Filter(p)
    \/ Clear(p)
    \/ Write(p)
    \/ Format(p)
    \/ WorkerFinallyFlag(p)
    \/ WorkerFinallyButton(p)

NextGui ==
    \/ \E autostart \in BOOLEAN : AppInit(autostart)
    \/ StartRequest
    \/ \E answer \in {"yes", "no"} : OnClosing(answer)
    \/ \E p \in ProcIds : WorkerStep(p)

SpecGui == InitGui /\ [][NextGui]_vars

\* The worker thread is scheduled as long as the process lives, and every
\* call it makes returns or raises.  The machines looked at: one OS, nothing
\* plugged in or one drive with one project directory, any blacklist sheet.
InitGuiFair ==
    /\ InitGui
    /\ os_name = "posix"
    /\ \A m \in mounted : m.part.rank = 1 /\ Len(m.listing) = 1

SpecGuiFair == InitGuiFair /\ [][NextGui]_vars /\ \A p \in ProcIds : WF_vars(WorkerStep(p))

(***************************************************************************)
(* Claims about the scan and the update of the remote catalog (Spec)       *)
(***************************************************************************)
DriveNames(docu) == {docu.rows[i].drive : i \in 1..Len(docu.rows)}

Count(rows, r) == Cardinality({i \in 1..Len(rows) : rows[i] = r})

RowsOf(rows, d) == SelectSeq(rows, LAMBDA r : r.drive = d)

\* A row of the previous catalog that update_online_spreadsheet has to keep:
\* its drive is not in the fresh scan and neither blacklist names it.
Untouched(p, r) ==
    /\ r.drive \notin DriveNames(procs[p].fresh)
    /\ <<r.drive>> \notin procs[p].bl2.drives
    /\ r.project \notin procs[p].bl2.dirs

Blacklisted(p, r) ==
    \/ <<r.drive>> \in procs[p].bl2.drives
    \/ r.project \in procs[p].bl2.dirs

\* C1: every row of the previous remote catalog whose drive is not in the
\* fresh scan, is not a blacklisted drive and whose project is not a
\* blacklisted directory is in the uploaded catalog, unchanged and as often as
\* before; the uploaded catalog is what the remote sheet holds after the write.
C1_UntouchedRowsKept ==
    \A p \in ProcIds :
        /\ procs[p].pc \in {"clear", "write", "format"} =>
              \A r \in Range(procs[p].downloaded.rows) :
                  Untouched(p, r) =>
                      Count(procs[p].updated.rows, r) = Count(procs[p].downloaded.rows, r)
        /\ procs[p].pc = "format" => worksheet.rows = procs[p].updated.rows

C1_Witness ==
    \E p \in ProcIds :
        /\ procs[p].pc = "format"
        /\ procs[p].fresh.rows # <<>>
        /\ \E r \in Range(procs[p].downloaded.rows) :
              Untouched(p, r) /\ r \in Range(worksheet.rows)
        /\ \E r \in Range(procs[p].downloaded.rows) : ~Untouched(p, r)

\* C2: after a scan and an update, for every connected drive (external, not
\* blacklisted) the remote catalog holds exactly the freshly scanned entries
\* of that drive and none carried over, also when the drive has no eligible
\* top-level directory.
C2_ConnectedDrivesReplaced ==
    \A p \in ProcIds :
        (procs[p].kind = "main" /\ procs[p].pc = "format") =>
            \A d \in procs[p].valid :
                <<d>> \notin procs[p].bl.drives =>
                    RowsOf(worksheet.rows, d) = RowsOf(procs[p].fresh.rows, d)

\* C3: the uploaded catalog holds no row whose drive-name is a blacklisted
\* drive or whose project-name is a blacklisted directory, wherever the row
\* came from.
C3_NoBlacklistedRowUploaded ==
    \A p \in ProcIds :
        /\ procs[p].pc \in {"clear", "write"} =>
              \A r \in Range(procs[p].updated.rows) : ~Blacklisted(p, r)
        /\ procs[p].pc = "format" =>
              \A r \in Range(worksheet.rows) : ~Blacklisted(p, r)

C3_Witness ==
    \E p \in ProcIds :
        /\ procs[p].pc = "format"
        /\ worksheet.rows # <<>>
        /\ \E r \in Range(procs[p].downloaded.rows) : Blacklisted(p, r)
        /\ \E r \in Range(procs[p].fresh.rows) : Blacklisted(p, r)

UniqueKeys(rows) ==
    \A i, j \in 1..Len(rows) :
        /\ (i # j) => ~(rows[i].drive = rows[j].drive /\ rows[i].project = rows[j].project)
        /\ (rows[i].drive = rows[j].drive) => rows[i].total = rows[j].total

\* C4: in every catalog a scan produces and in the remote catalog no two
\* entries share (drive-name, project-name) and no drive name stands for two
\* drive records, also with two mounted drives of the same display name.
C4_UniqueDriveAndProjectKeys ==
    /\ UniqueKeys(worksheet.rows)
    /\ \A p \in ProcIds : UniqueKeys(procs[p].fresh.rows)

\* The rows the scan recorded for entry e of mount m.
RowsFor(p, m, e) ==
    SelectSeq(procs[p].fresh.rows,
              LAMBDA r : /\ r.drive = drive_name_of(os_name, mounted, m.part.mountpoint)
                         /\ r.total = bytes_to_gb(m.part.total)
                         /\ r.project = e.name)

Scanned(p, m, e) ==
    /\ is_external_drive(os_name, m.part)
    /\ ~is_blacklisted_drive(os_name, mounted, m.part.mountpoint, procs[p].bl.drives)
    /\ is_valid_directory(e, procs[p].bl.dirs)

\* C9: the size recorded for a scanned directory whose size computation hit
\* a permission failure is the sentinel -1 itself (-1 GB), not a converted
\* value, and so differs from the 0 recorded for an empty directory.
C9_SentinelStoredLiterally ==
    \A p \in ProcIds :
        (procs[p].kind = "main" /\ procs[p].pc = "fetch") =>
            \A m \in mounted : \A e \in Range(m.listing) :
                (Scanned(p, m, e) /\ ~e.readable) =>
                    \A r \in Range(RowsFor(p, m, e)) :
                        /\ r.size = PermissionDenied * Decimals
                        /\ r.size # bytes_to_gb(0)

\* C10: the result of a scan, tabular or nested, holds no drive whose
\* display name is in blacklist_drives.
C10_NoBlacklistedDriveScanned ==
    \A p \in ProcIds :
        (procs[p].kind = "main" /\ procs[p].pc = "fetch") =>
            /\ \A r \in Range(procs[p].fresh.rows) : <<r.drive>> \notin procs[p].bl.drives
            /\ \A n \in DOMAIN scan_valid_drives_to_dict(os_name, mounted, procs[p].bl.drives,
                                                         procs[p].bl.dirs) :
                  <<n>> \notin procs[p].bl.drives

(***************************************************************************)
(* Claims about the GUI (SpecGui)                                          *)
(***************************************************************************)
\* The workers that have not yet reset the busy flag.
RunningWorkers == {p \in ProcIds : procs[p].kind = "gui" /\ procs[p].pc \notin {"idle", "button"}}

\* C5: at most one documentation-update worker runs at any time; while
\* is_running is true no step starts a thread, and the "already running"
\* notice is written only by a request that is rejected and starts nothing.
C5_SingleWorker ==
    /\ [](Cardinality(RunningWorkers) <= 1 /\ (RunningWorkers # {} => is_running))
    /\ [][is_running => \A p \in ProcIds : procs[p].pc = "idle" => procs'[p].pc = "idle"]_vars
    /\ [][(log' = "A process is already running." /\ log' # log) =>
            (is_running /\ UNCHANGED <<procs, is_running, start_button, worksheet>>)]_vars

C5_Witness ==
    /\ is_running
    /\ log = "A process is already running."
    /\ Cardinality(RunningWorkers) = 1

\* C6 as claimed: an exit never leaves the remote sheet cleared and not
\* rewritten, because the exit path never stops a worker in flight.
C6_ExitNeverLeavesSheetCleared ==
    app = "destroyed" =>
        ~(\E p \in ProcIds : procs[p].pc = "write" /\ worksheet = worksheet_clear(worksheet))

\* C6 as amended: the application is destroyed during a run only after the
\* user has confirmed the warning, a declined warning changes nothing, and
\* once the window is destroyed the worker makes no further step.
C6_ExitOnlyOnConfirmation ==
    /\ [][(app = "open" /\ app' = "destroyed" /\ is_running) => dialog' = "yes"]_vars
    /\ [][(dialog' = "no" /\ dialog # "no") =>
            UNCHANGED <<app, procs, worksheet, is_running>>]_vars
    /\ [][app = "destroyed" => UNCHANGED <<procs, worksheet>>]_vars

C6_Witness ==
    /\ app = "destroyed"
    /\ dialog = "yes"
    /\ worksheet = worksheet_clear(worksheet)
    /\ \E p \in ProcIds : procs[p].kind = "gui" /\ procs[p].pc = "write"

C15_WorkerLeavesWhatMainLeaves ==
    \A p \in ProcIds :
        (procs[p].kind = "gui" /\ procs[p].pc = "finally") =>
            LET left == IF procs[p].at = "open" THEN procs[p].ws0
                        ELSE main(os_name, mounted, bl_sheet, procs[p].ws0)
            IN  /\ worksheet.header = left.header
                /\ fetch_online_docu(worksheet) = fetch_online_docu(left)

\* The steps of update_online_spreadsheet before its upload have been made
\* or have failed, and the upload has not begun.
BeforeUpload(p) ==
    \/ procs[p].pc \in {"filter", "clear"}
    \/ procs[p].pc \in {"finally", "failed"} /\ procs[p].at \in {"fetch", "filter"}

\* C13: update_online_spreadsheet changes the remote catalog only in its
\* upload (the clear and the write): as long as the call is between its
\* fetch and the start of the upload, also when it has failed there or the
\* process has been stopped there, the remote catalog is what it was when
\* the call fetched it.
C13_RemoteUnchangedBeforeUpload ==
    /\ [](\A p \in ProcIds : BeforeUpload(p) => worksheet = procs[p].before)
    /\ [][worksheet' # worksheet =>
            \E p \in ProcIds : procs[p].pc \in {"clear", "write"} /\ procs'[p] # procs[p]]_vars

C13_Witness ==
    \E p \in ProcIds :
        /\ app = "destroyed"
        /\ procs[p].pc = "clear"
        /\ worksheet = procs[p].before
        /\ worksheet.rows # <<>>
        /\ procs[p].updated.rows # worksheet.rows

(***************************************************************************)
(* Claims about two racing processes (SpecRace)                            *)
(***************************************************************************)
Finished == \A p \in ProcIds : procs[p].pc \in {"done", "failed"}

Other(p) == CHOOSE q \in ProcIds : q # p

\* C7 as claimed: when both processes are through, the remote catalog is
\* exactly the catalog of the process whose write came last.
C7_LastWriteWins ==
    (Finished /\ last_writer # 0) => worksheet.rows = procs[last_writer].updated.rows

\* C7 as amended: the remote catalog begins with exactly the rows of the
\* last writer; it is that catalog, or that catalog followed by the rows of
\* the other process's catalog that lie below the last writer's last row.
C7_LastWriterOnTop ==
    (Finished /\ last_writer # 0) =>
        LET u == procs[last_writer].updated.rows
            o == procs[Other(last_writer)].updated.rows
        IN  \/ worksheet.rows = u
            \/ /\ procs[Other(last_writer)].pc = "done"
               /\ Len(o) > Len(u)
               /\ worksheet.rows = u \o SubSeq(o, Len(u) + 1, Len(o))

C7_Witness ==
    /\ \A p \in ProcIds : procs[p].pc = "done"
    /\ worksheet.rows # procs[last_writer].updated.rows
    /\ Len(worksheet.rows) > Len(procs[last_writer].updated.rows)

(***************************************************************************)
(* Claims about repeated updates (SpecTwice)                               *)
(***************************************************************************)
\* C12: merging a catalog X with itself as previous and as fresh and
\* filtering gives X filtered, with every row as often as in X; and after
\* update_online_spreadsheet has run twice in a row with the same fresh scan
\* and the same blacklist the remote catalog reads as it did after the first
\* run.
C12_MergeIdempotent ==
    \A p \in ProcIds :
        /\ \A X \in {procs[p].fresh, procs[p].downloaded} :
              (X.cols /\ ~load_blacklist_raises(bl_sheet)) =>
                  LET bl == load_blacklist(bl_sheet)
                      merged == update_docu_offline(X, X)
                  IN  /\ apply_blacklist_on_df(merged, bl.drives, bl.dirs)
                            = apply_blacklist_on_df(X, bl.drives, bl.dirs)
                      /\ \A r \in Range(X.rows) : Count(merged.rows, r) = Count(X.rows, r)
        /\ (procs[p].kind = "again" /\ procs[p].pc \in {"done", "failed"}) =>
              /\ worksheet.header = procs[p].ws0.header
              /\ fetch_online_docu(worksheet) = fetch_online_docu(procs[p].ws0)

(***************************************************************************)
(* Claims about get_date_from_dir_name (SpecDate)                          *)
(***************************************************************************)
\* The name has ten characters or more, with digits at the eight digit places.
EightDigits(name) ==
    /\ Len(name) >= 10
    /\ \A i \in {1, 2, 3, 4, 6, 7, 9, 10} : name[i] \in Digits

C8_ApplyRemovesExactlyBlacklisted ==
    \A p \in ProcIds :
        (procs[p].kind = "apply" /\ procs[p].pc = "done") =>
            LET df_filtered == apply_blacklist_on_df(procs[p].first, procs[p].arg.drives,
                                                     procs[p].arg.dirs)
            IN  IF df_filtered = procs[p].first
                THEN procs[p].downloaded = NoDF /\ worksheet.rows = procs[p].first.rows
                ELSE worksheet.rows = df_filtered.rows

====
